---- MODULE Spec2Model ----
(***************************************************************************)
(* Model of src/main.py: a command-line dispatcher that runs external      *)
(* static-analysis tools (bandit, flake8, pylint, pyre) one after another, *)
(* collects their standard output in an insertion-ordered mapping, prints  *)
(* the mapping and optionally writes it to a report file.                  *)
(*                                                                         *)
(* Text is a sequence of chunks.  A chunk is either the line break "\n" or *)
(* a piece of text without a line break, so two texts are byte-equal       *)
(* exactly when their chunk sequences are equal.  A path is a sequence of  *)
(* one-character chunks.                                                   *)
(***************************************************************************)
EXTENDS Naturals, Sequences, FiniteSets

VARIABLES
    filepath,      \* args.filepath
    language,      \* args.language
    report_file,   \* args.report_file: [given |-> FALSE] is None
    use,           \* args.use_bandit .. args.use_pyre, by tool name
    pc,            \* position of main
    i,             \* which of the four `if use_<tool>` blocks analyze_python is at
    results,       \* the results dict, in insertion order: Seq of [key, text]
    running,       \* tool subprocesses that are alive
    started,       \* per tool, how many subprocesses were started
    launch,        \* per tool, the argv and cwd handed to subprocess.run
    outcome,       \* per tool: "none", "zero", "nonzero", "nolaunch"
    captured,      \* per tool, what process.stdout held after a zero exit
    console,       \* everything print() wrote to standard output
    idx,           \* position of the printing loop in results
    reportFile,    \* the file at the report path: [exists, content]
    saveCalls,     \* number of calls of save_report
    saveOutcome    \* "none", "ok", "open_failed", "write_failed"

vars == <<filepath, language, report_file, use, pc, i, results, running, started,
          launch, outcome, captured, console, idx, reportFile, saveCalls, saveOutcome>>

\* ------------------------------------------------------------------ bounds
\* Longest standard output of a tool, in chunks.
MaxOutLen == 1
\* Largest non-zero exit status a tool returns.
MaxStatus == 1

\* ------------------------------------------------------------------ inputs
NL == "\n"

ToolOrder == <<"bandit", "flake8", "pylint", "pyre">>
Tools == {ToolOrder[k] : k \in 1..Len(ToolOrder)}
Languages == {"javascript", "php", "python"}

\* The file system the run sees, relative to the caller's working directory:
\* a directory a holding a file b, and a file b next to it.
TargetPaths ==
    { <<"b">>, <<"a">>, <<"a", "/">>, <<"a", "/", "b">>, <<".", "/", "b">>,
      <<"c">>, <<"a", "/", "c">> }

Resolve(p) ==
    CASE p = <<"b">>           -> "cwd/b"
      [] p = <<".", "/", "b">> -> "cwd/b"
      [] p = <<"a">>           -> "cwd/a"
      [] p = <<"a", "/">>      -> "cwd/a"
      [] p = <<"a", "/", "b">> -> "cwd/a/b"
      [] p = <<".">>           -> "cwd"
      [] OTHER                 -> "ENOENT"

IsDirectory(node) == node \in {"cwd", "cwd/a"}

ParentNode(node) ==
    CASE node = "cwd/a/b" -> "cwd/a"
      [] node = "cwd/a"   -> "cwd"
      [] node = "cwd/b"   -> "cwd"
      [] OTHER            -> "ENOENT"

ReportArgs ==
    { [given |-> FALSE, path |-> <<>>],
      [given |-> TRUE,  path |-> <<>>],
      [given |-> TRUE,  path |-> <<"o">>] }

RECURSIVE SeqsUpTo(_, _)
SeqsUpTo(S, n) ==
    IF n = 0 THEN {<<>>}
    ELSE LET shorter == SeqsUpTo(S, n - 1)
         IN  shorter \cup {Append(s, x) : s \in shorter, x \in S}

Stdouts == SeqsUpTo({"x", NL}, MaxOutLen)
ExitStatuses == 0..MaxStatus

StatusText(s) ==
    CASE s = 0 -> "0" [] s = 1 -> "1" [] s = 2 -> "2" [] OTHER -> "n"

\* ------------------------------------------------------------------ helpers
\* os.path.exists(filepath)
PathExistsAlways(p) == TRUE
PathExists(p) == Resolve(p) # "ENOENT"

\* posixpath.dirname: everything up to the last "/", trailing slashes removed
\* unless the head is made of slashes only.
RECURSIVE LastSlash(_, _)
LastSlash(p, k) ==
    IF k = 0 THEN 0 ELSE IF p[k] = "/" THEN k ELSE LastSlash(p, k - 1)

RECURSIVE RStripSlash(_)
RStripSlash(p) ==
    IF p # <<>> /\ p[Len(p)] = "/" THEN RStripSlash(SubSeq(p, 1, Len(p) - 1)) ELSE p

dirname(p) ==
    LET head == SubSeq(p, 1, LastSlash(p, Len(p)))
    IN  IF head # <<>> /\ \E k \in 1..Len(head) : head[k] # "/"
        THEN RStripSlash(head)
        ELSE head

\* `if report_file:` is false for None and for the empty string.
Truthy(r) == r.given /\ r.path # <<>>

\* str.upper() on the keys the results dict can hold.
Upper(key) ==
    CASE key = "bandit"              -> "BANDIT"
      [] key = "flake8"              -> "FLAKE8"
      [] key = "pylint"              -> "PYLINT"
      [] key = "pyre"                -> "PYRE"
      [] key = "javascript_analysis" -> "JAVASCRIPT_ANALYSIS"
      [] key = "php_analysis"        -> "PHP_ANALYSIS"
      [] OTHER                       -> key

\* shlex.split(command): each argument is a sequence of chunks.
Command(t, fp) ==
    CASE t = "bandit" -> << <<"bandit">>, <<"-r">>, fp, <<"-q">>, <<"-f">>, <<"json">> >>
      [] t = "flake8" -> << <<"flake8">>, fp >>
      [] t = "pylint" -> << <<"pylint">>, fp, <<"--output-format=json">> >>
      [] OTHER        -> << <<"pyre">>, <<"check">> >>

\* The cwd argument of subprocess.run: only pyre gets one.
LaunchCwd(t, fp) ==
    IF t = "pyre" THEN [inherit |-> FALSE, dir |-> dirname(fp)]
    ELSE [inherit |-> TRUE, dir |-> <<>>]

\* Popen changes to cwd in the child; a cwd that is no directory (the empty
\* string included) raises FileNotFoundError.
CwdUsable(c) == c.inherit \/ IsDirectory(Resolve(c.dir))

\* f"Error: {e}" for a CalledProcessError; the argv list in the message is
\* abbreviated to the executable's name.
ErrorText(t, status) ==
    <<"Error: ", "Command '", t, "' returned non-zero exit status ", StatusText(status), ".">>

\* results[tool] = process.stdout
OnSuccess(res, t, out) == Append(res, [key |-> t, text |-> out])

\* except subprocess.CalledProcessError as e: results[tool] = f"Error: {e}"
OnCalledProcessErrorDropsEntry(res, t, status) == res
OnCalledProcessError(res, t, status) == Append(res, [key |-> t, text |-> ErrorText(t, status)])

\* return {"javascript_analysis": "Not implemented"} / {"php_analysis": ...}
PlaceholderEmpty(lang) == <<>>
PlaceholderResult(lang) ==
    << [key  |-> IF lang = "javascript" THEN "javascript_analysis" ELSE "php_analysis",
        text |-> <<"Not implemented">>] >>

\* Where analyze_python goes once the block of tool k is over.
PcAfterTool(k) == IF k = Len(ToolOrder) THEN "print_title" ELSE "check"

\* print(f"\n--- {tool.upper()} ---\n"); print(result)
ConsoleTitle == <<NL, "Analysis Results:", NL>>
ConsoleEntry(e) == <<NL, "--- ", Upper(e.key), " ---", NL, NL>> \o e.text \o <<NL>>

\* f.write(f"\n--- {tool.upper()} ---\n"); f.write(result)
ReportTitle == <<"Analysis Report:", NL>>
ReportHeaderNotUpper(e) == <<NL, "--- ", e.key, " ---", NL>>
ReportHeader(e) == <<NL, "--- ", Upper(e.key), " ---", NL>>

\* The successive f.write calls of save_report.
RECURSIVE ReportWrites(_)
ReportWrites(res) ==
    IF res = <<>> THEN <<ReportTitle>>
    ELSE LET e == res[Len(res)]
         IN  ReportWrites(SubSeq(res, 1, Len(res) - 1)) \o <<ReportHeader(e), e.text>>

RECURSIVE Flatten(_)
Flatten(ws) == IF ws = <<>> THEN <<>> ELSE Head(ws) \o Flatten(Tail(ws))

\* The printing loop of main is over.
PrintingDoneAlways == TRUE
PrintingDone == idx > Len(results)

\* ------------------------------------------------------------------ Init
NoLaunch == [attempted |-> FALSE, argv |-> <<>>, inherit |-> TRUE, dir |-> <<>>]

Init ==
    /\ filepath \in TargetPaths
    /\ language \in Languages
    /\ report_file \in ReportArgs
    /\ use \in [Tools -> BOOLEAN]
    /\ pc = "start"
    /\ i = 1
    /\ results = <<>>
    /\ running = {}
    /\ started = [t \in Tools |-> 0]
    /\ launch = [t \in Tools |-> NoLaunch]
    /\ outcome = [t \in Tools |-> "none"]
    /\ captured = [t \in Tools |-> <<>>]
    /\ console = <<>>
    /\ idx = 1
    /\ reportFile = [exists |-> FALSE, content |-> <<>>]
    /\ saveCalls = 0
    /\ saveOutcome = "none"

\* ------------------------------------------------------------------ main
\* if not os.path.exists(filepath): print the error and return.
RejectMissing ==
    /\ pc = "start"
    /\ ~PathExists(filepath)
    /\ console' = console \o <<"Error: File or directory not found: ">> \o filepath \o <<NL>>
    /\ pc' = "rejected"
    /\ UNCHANGED <<filepath, language, report_file, use, i, results, running, started,
                   launch, outcome, captured, idx, reportFile, saveCalls, saveOutcome>>

\* language == 'python': enter analyze_python with results = {}.
EnterPython ==
    /\ pc = "start"
    /\ PathExists(filepath)
    /\ language = "python"
    /\ pc' = "check"
    /\ i' = 1
    /\ results' = <<>>
    /\ UNCHANGED <<filepath, language, report_file, use, running, started, launch,
                   outcome, captured, console, idx, reportFile, saveCalls, saveOutcome>>

\* analyze_javascript / analyze_php: one fixed entry, no subprocess.
AnalyzePlaceholder ==
    /\ pc = "start"
    /\ PathExists(filepath)
    /\ language \in {"javascript", "php"}
    /\ results' = PlaceholderResult(language)
    /\ pc' = "print_title"
    /\ UNCHANGED <<filepath, language, report_file, use, i, running, started, launch,
                   outcome, captured, console, idx, reportFile, saveCalls, saveOutcome>>

\* ------------------------------------------------------------------ analyze_python
\* `if use_<tool>:` is false: the block is skipped.
SkipTool ==
    /\ pc = "check"
    /\ ~use[ToolOrder[i]]
    /\ pc' = PcAfterTool(i)
    /\ i' = IF i = Len(ToolOrder) THEN i ELSE i + 1
    /\ UNCHANGED <<filepath, language, report_file, use, results, running, started,
                   launch, outcome, captured, console, idx, reportFile, saveCalls, saveOutcome>>

\* subprocess.run(...) starts the tool.  When the executable is not installed,
\* or the cwd is no directory, Popen raises FileNotFoundError, which is no
\* CalledProcessError: it leaves analyze_python and main uncaught.
LaunchTool ==
    /\ pc = "check"
    /\ use[ToolOrder[i]]
    /\ LET t == ToolOrder[i]
           c == LaunchCwd(t, filepath)
       IN  /\ launch' = [launch EXCEPT ![t] = [attempted |-> TRUE,
                                                argv      |-> Command(t, filepath),
                                                inherit   |-> c.inherit,
                                                dir       |-> c.dir]]
           /\ \E installed \in BOOLEAN :
                IF installed /\ CwdUsable(c)
                THEN /\ running' = running \cup {t}
                     /\ started' = [started EXCEPT ![t] = @ + 1]
                     /\ pc' = "wait"
                     /\ UNCHANGED outcome
                ELSE /\ outcome' = [outcome EXCEPT ![t] = "nolaunch"]
                     /\ pc' = "crashed"
                     /\ UNCHANGED <<running, started>>
    /\ UNCHANGED <<filepath, language, report_file, use, i, results, captured, console,
                   idx, reportFile, saveCalls, saveOutcome>>

\* The blocking call returns: the subprocess has exited.  check=True turns a
\* non-zero status into CalledProcessError, caught by the block's except.
ToolExit ==
    /\ pc = "wait"
    /\ LET t == ToolOrder[i]
       IN  /\ running' = running \ {t}
           /\ \E status \in ExitStatuses :
                IF status = 0
                THEN \E out \in Stdouts :
                       /\ captured' = [captured EXCEPT ![t] = out]
                       /\ results' = OnSuccess(results, t, out)
                       /\ outcome' = [outcome EXCEPT ![t] = "zero"]
                ELSE /\ results' = OnCalledProcessError(results, t, status)
                     /\ outcome' = [outcome EXCEPT ![t] = "nonzero"]
                     /\ UNCHANGED captured
    /\ pc' = PcAfterTool(i)
    /\ i' = IF i = Len(ToolOrder) THEN i ELSE i + 1
    /\ UNCHANGED <<filepath, language, report_file, use, started, launch, console, idx,
                   reportFile, saveCalls, saveOutcome>>

\* ------------------------------------------------------------------ printing
\* print("\nAnalysis Results:")
PrintTitle ==
    /\ pc = "print_title"
    /\ console' = console \o ConsoleTitle
    /\ idx' = 1
    /\ pc' = "print_entry"
    /\ UNCHANGED <<filepath, language, report_file, use, i, results, running, started,
                   launch, outcome, captured, reportFile, saveCalls, saveOutcome>>

\* One turn of `for tool, result in results.items()`.
PrintEntry ==
    /\ pc = "print_entry"
    /\ idx <= Len(results)
    /\ console' = console \o ConsoleEntry(results[idx])
    /\ idx' = idx + 1
    /\ UNCHANGED <<filepath, language, report_file, use, pc, i, results, running,
                   started, launch, outcome, captured, reportFile, saveCalls, saveOutcome>>

\* ------------------------------------------------------------------ report
\* `if report_file:` is false: main returns.
NoReport ==
    /\ pc = "print_entry"
    /\ PrintingDone
    /\ ~Truthy(report_file)
    /\ pc' = "done"
    /\ UNCHANGED <<filepath, language, report_file, use, i, results, running, started,
                   launch, outcome, captured, console, idx, reportFile, saveCalls, saveOutcome>>

\* save_report(report_file, results): open(..., "w") truncates, then one write
\* per title, header and result.  Any exception is caught and logged.
SaveReport ==
    /\ pc = "print_entry"
    /\ PrintingDone
    /\ Truthy(report_file)
    /\ saveCalls' = saveCalls + 1
    /\ LET ws == ReportWrites(results)
       IN  \/ /\ saveOutcome' = "ok"
              /\ reportFile' = [exists |-> TRUE, content |-> Flatten(ws)]
           \/ /\ saveOutcome' = "open_failed"
              /\ UNCHANGED reportFile
           \/ \E k \in 0..(Len(ws) - 1) :
                /\ saveOutcome' = "write_failed"
                /\ reportFile' = [exists |-> TRUE, content |-> Flatten(SubSeq(ws, 1, k))]
    /\ pc' = "announce"
    /\ UNCHANGED <<filepath, language, report_file, use, i, results, running, started,
                   launch, outcome, captured, console, idx>>

\* print(f"\nReport saved to: {report_file}")
Announce ==
    /\ pc = "announce"
    /\ console' = console \o <<NL, "Report saved to: ">> \o report_file.path \o <<NL>>
    /\ pc' = "done"
    /\ UNCHANGED <<filepath, language, report_file, use, i, results, running, started,
                   launch, outcome, captured, idx, reportFile, saveCalls, saveOutcome>>

Next ==
    \/ RejectMissing
    \/ EnterPython
    \/ AnalyzePlaceholder
    \/ SkipTool
    \/ LaunchTool
    \/ ToolExit
    \/ PrintTitle
    \/ PrintEntry
    \/ NoReport
    \/ SaveReport
    \/ Announce

Spec == Init /\ [][Next]_vars

\* ------------------------------------------------------------------ properties
Keys(res) == [k \in 1..Len(res) |-> res[k].key]
EnabledInOrder == SelectSeq(ToolOrder, LAMBDA t : use[t])
EntryOf(t) == CHOOSE k \in 1..Len(results) : results[k].key = t
HasEntry(t) == \E k \in 1..Len(results) : results[k].key = t
IndexOf(t) == CHOOSE k \in 1..Len(ToolOrder) : ToolOrder[k] = t
BeginsWithError(text) == text # <<>> /\ text[1] = "Error: "

\* analyze_* has returned its mapping to main.
Returned == pc \in {"print_title", "print_entry", "announce", "done"}
\* The process has ended, by returning from main or by an uncaught exception.
Ended == pc \in {"done", "crashed", "rejected"}

\* The results block main prints for a mapping.
RECURSIVE RenderConsole(_)
RenderConsole(res) ==
    IF res = <<>> THEN ConsoleTitle
    ELSE RenderConsole(SubSeq(res, 1, Len(res) - 1)) \o ConsoleEntry(res[Len(res)])

AnnounceLine == <<NL, "Report saved to: ">> \o report_file.path \o <<NL>>

\* C1: the mapping analyze_python returns holds exactly one entry per enabled
\* tool and none for a disabled one, in the order bandit, flake8, pylint, pyre,
\* whether each tool exited zero or non-zero; while it is being built it holds
\* the entries of the enabled tools already done.
C1_OneEntryPerEnabledTool ==
    language = "python" =>
        /\ Returned => Keys(results) = EnabledInOrder
        /\ pc \in {"check", "wait"} =>
             Keys(results) = SelectSeq(SubSeq(ToolOrder, 1, i - 1), LAMBDA t : use[t])
        /\ \A t \in Tools : outcome[t] \in {"zero", "nonzero"} => HasEntry(t)

C1_Witness ==
    /\ language = "python"
    /\ pc = "done"
    /\ outcome["bandit"] = "nonzero"
    /\ ~use["flake8"]
    /\ outcome["pylint"] = "zero"
    /\ outcome["pyre"] = "nonzero"
    /\ Len(results) = 3

\* C2: once the run has ended, a tool that exited non-zero has an entry
\* beginning with "Error:", every enabled tool later in the order was invoked,
\* and every other enabled tool that exited zero has its captured standard
\* output as its entry.
C2_NonZeroExitIsLocal ==
    \A t \in Tools :
        (Ended /\ outcome[t] = "nonzero") =>
            /\ HasEntry(t) /\ BeginsWithError(results[EntryOf(t)].text)
            /\ \A u \in Tools :
                 (use[u] /\ IndexOf(u) > IndexOf(t)) => launch[u].attempted
            /\ \A u \in Tools \ {t} :
                 (use[u] /\ outcome[u] = "zero") =>
                     HasEntry(u) /\ results[EntryOf(u)].text = captured[u]

\* C3: a tool whose launch fails (executable not installed) does not crash the
\* run: the run ends normally with an error entry for that tool.
C3_MissingToolIsRecovered ==
    \A t \in Tools :
        outcome[t] = "nolaunch" =>
            /\ pc # "crashed"
            /\ pc = "done" => HasEntry(t) /\ BeginsWithError(results[EntryOf(t)].text)

\* C4: for a target path that does not exist, whatever the language, flags and
\* report path, main only reports the validation error: no subprocess is
\* attempted or started, no results block is printed, save_report is not
\* called and the report file is not created.
C4_MissingPathRunsNothing ==
    Resolve(filepath) = "ENOENT" =>
        /\ pc \in {"start", "rejected"}
        /\ \A t \in Tools : started[t] = 0 /\ ~launch[t].attempted
        /\ running = {}
        /\ results = <<>>
        /\ console = IF pc = "start" THEN <<>>
                     ELSE <<"Error: File or directory not found: ">> \o filepath \o <<NL>>
        /\ saveCalls = 0
        /\ ~reportFile.exists

C4_Witness ==
    /\ pc = "rejected"
    /\ language = "python"
    /\ use["bandit"] /\ use["pyre"]
    /\ Truthy(report_file)

\* C5: for javascript and php with an existing target the mapping has exactly
\* one entry, the text "Not implemented", whatever the tool flags, and no
\* subprocess is attempted or started.
C5_PlaceholderForOtherLanguages ==
    (language \in {"javascript", "php"} /\ Resolve(filepath) # "ENOENT") =>
        /\ Returned =>
             /\ Len(results) = 1
             /\ results[1].text = <<"Not implemented">>
        /\ pc # "crashed"
        /\ running = {}
        /\ \A t \in Tools : started[t] = 0 /\ ~launch[t].attempted

C5_Witness ==
    /\ language = "php"
    /\ pc = "done"
    /\ \A t \in Tools : use[t]
    /\ Len(results) = 1

\* C6 as stated: after a successful write the report file is byte-for-byte
\* the aggregate printed to the console.
C6_ReportByteEqualsConsole ==
    (pc = "announce" /\ saveOutcome = "ok") => reportFile.content = console

\* What is left of a text without its line breaks and its title.
Body(text) ==
    SelectSeq(text, LAMBDA c : c \notin {NL, "Analysis Results:", "Analysis Report:"})

\* C6 amended: after a successful write the report file and the console
\* aggregate hold the same headers in the same order with the same output
\* text; they differ in the title and in line breaks: the console has one
\* line break before its title, one more after each header and one more after
\* each output text.
C6_ReportSameHeadersAndText ==
    (pc = "announce" /\ saveOutcome = "ok") =>
        /\ Body(reportFile.content) = Body(console)
        /\ Len(console) = Len(reportFile.content) + 1 + 2 * Len(results)
        /\ reportFile.content # console

C6_Witness ==
    /\ pc = "announce"
    /\ saveOutcome = "ok"
    /\ outcome["bandit"] = "zero" /\ captured["bandit"] # <<>>
    /\ outcome["pylint"] = "nonzero"
    /\ Len(results) = 2

\* C7: whenever save_report has been called the console already holds the
\* whole results block; save_report adds nothing to the console and raises
\* nothing: after a failed open or write main goes on to its last line and the
\* run ends normally.
C7_ConsoleBeforeReport ==
    /\ saveCalls > 0 =>
         /\ Len(console) >= Len(RenderConsole(results))
         /\ SubSeq(console, 1, Len(RenderConsole(results))) = RenderConsole(results)
    /\ pc = "announce" => console = RenderConsole(results)
    /\ saveOutcome \in {"open_failed", "write_failed"} =>
         /\ pc \in {"announce", "done"}
         /\ pc = "done" => console = RenderConsole(results) \o AnnounceLine

C7_Witness ==
    /\ pc = "done"
    /\ saveOutcome = "write_failed"
    /\ reportFile.exists
    /\ Len(results) >= 2

\* C8: at most one tool subprocess is alive; a tool is started only after every
\* enabled tool before it has exited; no tool is started twice; and once a
\* python run on an existing target has ended, every enabled tool (other than
\* one whose own launch failed) was started exactly once.
C8_SequentialExactlyOnce ==
    /\ Cardinality(running) <= 1
    /\ \A t \in Tools :
         started[t] > 0 =>
             \A u \in Tools :
                 (use[u] /\ IndexOf(u) < IndexOf(t)) =>
                     outcome[u] \in {"zero", "nonzero"} /\ u \notin running
    /\ \A t \in Tools : started[t] <= 1
    /\ (Ended /\ language = "python" /\ Resolve(filepath) # "ENOENT") =>
         \A t \in Tools : (use[t] /\ outcome[t] # "nolaunch") => started[t] = 1

\* C9: pyre is launched with the parent directory of the target as its working
\* directory; bandit, flake8 and pylint are launched in the caller's working
\* directory with the target path among their arguments.
C9_PyreRunsInParent ==
    \A t \in Tools :
        launch[t].attempted =>
            IF t = "pyre"
            THEN /\ ~launch[t].inherit
                 /\ IsDirectory(Resolve(launch[t].dir))
                 /\ Resolve(launch[t].dir) = ParentNode(Resolve(filepath))
            ELSE /\ launch[t].inherit
                 /\ \E k \in 1..Len(launch[t].argv) : launch[t].argv[k] = filepath

\* C10: once a run on an existing target with a report path has ended,
\* save_report was called exactly once and "Report saved to: <path>" is the
\* last thing printed, also when the write failed; without a report path
\* save_report is never called and the line is never printed.
C10_SaveReportOncePerRun ==
    /\ (Ended /\ Resolve(filepath) # "ENOENT" /\ Truthy(report_file)) =>
         /\ saveCalls = 1
         /\ console = RenderConsole(results) \o AnnounceLine
    /\ ~Truthy(report_file) =>
         /\ saveCalls = 0
         /\ \A k \in 1..Len(console) : console[k] # "Report saved to: "

====
